---- MODULE Spec2Model ----
(***************************************************************************)
(* Model of ReceiptParser.parse (src/src/services/parser.service.ts): the   *)
(* extraction ladders, written as the regular expressions of the source     *)
(* run by a backtracking matcher, and the reconciliation steps Paso 1..8.   *)
(*                                                                         *)
(* Numbers are exact decimals m / 10^e (IEEE rounding noise is not          *)
(* modelled), with the two non-values of the code, undefined and NaN.       *)
(* data.date and data.invoiceNumber feed no numeric field and are left out. *)
(***************************************************************************)
EXTENDS Integers, Sequences, FiniteSets, TLC

(***************************************************************************)
(* Characters and strings.  A text is a TLA+ string; the matcher works on  *)
(* its sequence of one-character strings.                                   *)
(***************************************************************************)
Chars(s) == SubSeq([i \in 1..Len(s) |-> SubSeq(s, i, i)], 1, Len(s))

RECURSIVE Str(_)
Str(cs) == IF Len(cs) = 0 THEN "" ELSE Head(cs) \o Str(Tail(cs))

SwapCase ==
  [A |-> "a", B |-> "b", C |-> "c", D |-> "d", E |-> "e", F |-> "f",
   G |-> "g", H |-> "h", I |-> "i", J |-> "j", K |-> "k", L |-> "l",
   M |-> "m", N |-> "n", O |-> "o", P |-> "p", Q |-> "q", R |-> "r",
   S |-> "s", T |-> "t", U |-> "u", V |-> "v", W |-> "w", X |-> "x",
   Y |-> "y", Z |-> "z", a |-> "A", b |-> "B", c |-> "C", d |-> "D",
   e |-> "E", f |-> "F", g |-> "G", h |-> "H", i |-> "I", j |-> "J",
   k |-> "K", l |-> "L", m |-> "M", n |-> "N", o |-> "O", p |-> "P",
   q |-> "Q", r |-> "R", s |-> "S", t |-> "T", u |-> "U", v |-> "V",
   w |-> "W", x |-> "X", y |-> "Y", z |-> "Z"]
Letter == DOMAIN SwapCase
Upper == {"A", "B", "C", "D", "E", "F", "G", "H", "I", "J", "K", "L", "M",
          "N", "O", "P", "Q", "R", "S", "T", "U", "V", "W", "X", "Y", "Z"}

Digit == {"0", "1", "2", "3", "4", "5", "6", "7", "8", "9"}
Space == {" ", "\t", "\n", "\r", "\f"}

(***************************************************************************)
(* Regular expressions of the source as syntax trees.                      *)
(***************************************************************************)
Unbounded == -1
Lit(w) == [t |-> "lit", w |-> Chars(w)]
In(S) == [t |-> "in", s |-> S]
NotIn(S) == [t |-> "notin", s |-> S]
Cat(a) == [t |-> "cat", a |-> a]
Alt(a) == [t |-> "alt", a |-> a]
Rep(r, lo, hi) == [t |-> "rep", r |-> r, lo |-> lo, hi |-> hi, lazy |-> FALSE]
Lazy(r, lo, hi) == [t |-> "rep", r |-> r, lo |-> lo, hi |-> hi, lazy |-> TRUE]
Star(r) == Rep(r, 0, Unbounded)
Plus(r) == Rep(r, 1, Unbounded)
Opt(r) == Rep(r, 0, 1)
Grp(n, r) == [t |-> "grp", n |-> n, r |-> r]
Eos == [t |-> "eos"]
Bos == [t |-> "bos"]
WordB == [t |-> "wordb"]
Ahead(r) == [t |-> "ahead", r |-> r]
NotAhead(r) == [t |-> "notahead", r |-> r]
Dg == In(Digit)
Ws == In(Space)
AnyCh == NotIn({})
Dot == NotIn({"\n", "\r"})

MaxGroup == 3
NoCaps == [g \in 1..MaxGroup |-> <<0, 0>>]
Fail == [ok |-> FALSE, start |-> 0, end |-> 0, caps |-> NoCaps]

CharEq(ic, c, p) == c = p \/ (ic /\ c \in Letter /\ SwapCase[c] = p)
CharIn(ic, c, P) == c \in P \/ (ic /\ c \in Letter /\ SwapCase[c] \in P)
IsWord(s, i) == i >= 1 /\ i <= Len(s) /\ s[i] \in Letter \cup Digit \cup {"_"}
Less1(h) == IF h = Unbounded THEN Unbounded ELSE h - 1
OneChar(ic, c, n) == IF n.t = "in" THEN CharIn(ic, c, n.s) ELSE ~CharIn(ic, c, n.s)

(***************************************************************************)
(* RunLen: how many characters from position i on match the one-character  *)
(* node n, at most hi of them.                                             *)
(***************************************************************************)
RunLen(s, ic, i, n, hi) ==
  LET Least(cap, stop) == IF stop = {} THEN cap
                          ELSE CHOOSE j \in stop : \A l \in stop : j <= l
      Within(cap) == Least(cap, {j \in 0..(cap - 1) : ~OneChar(ic, s[i + j], n)})
      Capped(left) == Within(IF hi = Unbounded \/ hi > left THEN left ELSE hi)
  IN  Capped(Len(s) - i + 1)

(***************************************************************************)
(* Run(k, s, ic, i, caps): the backtracking match of the node list k (the  *)
(* rest of the pattern) on s from position i; alternatives and repetitions *)
(* are tried in ECMAScript's priority order and the first success wins.    *)
(***************************************************************************)
RECURSIVE Run(_, _, _, _, _)
RECURSIVE Counts(_, _, _, _, _, _, _, _)
Run(k, s, ic, i, caps) ==
  IF Len(k) = 0 THEN [ok |-> TRUE, start |-> 0, end |-> i, caps |-> caps]
  ELSE
    LET n == Head(k)
        rest == Tail(k)
    IN CASE n.t = "lit" ->
              IF /\ i + Len(n.w) - 1 <= Len(s)
                 /\ \A j \in 1..Len(n.w) : CharEq(ic, s[i + j - 1], n.w[j])
              THEN Run(rest, s, ic, i + Len(n.w), caps) ELSE Fail
         [] n.t = "in" ->
              IF i <= Len(s) /\ CharIn(ic, s[i], n.s)
              THEN Run(rest, s, ic, i + 1, caps) ELSE Fail
         [] n.t = "notin" ->
              IF i <= Len(s) /\ ~CharIn(ic, s[i], n.s)
              THEN Run(rest, s, ic, i + 1, caps) ELSE Fail
         [] n.t = "cat" -> Run(n.a \o rest, s, ic, i, caps)
         [] n.t = "alt" ->
              IF Len(n.a) = 0 THEN Fail
              ELSE LET first == Run(<<Head(n.a)>> \o rest, s, ic, i, caps)
                   IN  IF first.ok THEN first
                       ELSE Run(<<Alt(Tail(n.a))>> \o rest, s, ic, i, caps)
         [] n.t = "rep" ->
              IF n.r.t \in {"in", "notin"}
              THEN Counts(rest, s, ic, i, caps, n.lazy, n.lo,
                          RunLen(s, ic, i, n.r, n.hi))
              ELSE IF n.lo > 0
              THEN Run(<<n.r, [n EXCEPT !.lo = @ - 1, !.hi = Less1(@)]>> \o rest,
                       s, ic, i, caps)
              ELSE IF n.hi = 0 THEN Run(rest, s, ic, i, caps)
              ELSE LET more == Run(<<n.r, [t |-> "moved", at |-> i],
                                     [n EXCEPT !.hi = Less1(@)]>> \o rest,
                                   s, ic, i, caps)
                       done == Run(rest, s, ic, i, caps)
                   IN  IF n.lazy
                       THEN IF done.ok THEN done ELSE more
                       ELSE IF more.ok THEN more ELSE done
         [] n.t = "moved" ->
              IF i > n.at THEN Run(rest, s, ic, i, caps) ELSE Fail
         [] n.t = "grp" ->
              Run(<<n.r, [t |-> "close", n |-> n.n, at |-> i]>> \o rest,
                  s, ic, i, caps)
         [] n.t = "close" ->
              Run(rest, s, ic, i, [caps EXCEPT ![n.n] = <<n.at, i>>])
         [] n.t = "eos" ->
              IF i = Len(s) + 1 THEN Run(rest, s, ic, i, caps) ELSE Fail
         [] n.t = "bos" ->
              IF i = 1 THEN Run(rest, s, ic, i, caps) ELSE Fail
         [] n.t = "wordb" ->
              IF IsWord(s, i - 1) # IsWord(s, i)
              THEN Run(rest, s, ic, i, caps) ELSE Fail
         [] n.t = "ahead" ->
              IF Run(<<n.r>>, s, ic, i, caps).ok
              THEN Run(rest, s, ic, i, caps) ELSE Fail
         [] n.t = "notahead" ->
              IF Run(<<n.r>>, s, ic, i, caps).ok
              THEN Fail ELSE Run(rest, s, ic, i, caps)

(***************************************************************************)
(* Counts: a repetition of a one-character node may take lo..hi characters *)
(* here; the greedy one keeps the largest count after which the rest of    *)
(* the pattern matches, the lazy one the smallest.                          *)
(***************************************************************************)
Counts(rest, s, ic, i, caps, lazy, lo, hi) ==
  IF lo > hi THEN Fail
  ELSE IF lo = hi THEN Run(rest, s, ic, i + lo, caps)
  ELSE LET mid == (lo + hi) \div 2
           low == Counts(rest, s, ic, i, caps, lazy, lo, mid)
           high == Counts(rest, s, ic, i, caps, lazy, mid + 1, hi)
       IN  IF lazy THEN (IF low.ok THEN low ELSE high)
           ELSE (IF high.ok THEN high ELSE low)

(***************************************************************************)
(* First(re): the characters a match of re can begin with; open when it    *)
(* can begin with anything (an empty match, a negated class).  A search     *)
(* only tries the positions that hold such a character.                     *)
(***************************************************************************)
RECURSIVE First(_)
First(re) ==
  CASE re.t = "lit" -> IF Len(re.w) = 0 THEN [set |-> {}, open |-> TRUE]
                       ELSE [set |-> {re.w[1]}, open |-> FALSE]
    [] re.t = "in" -> [set |-> re.s, open |-> FALSE]
    [] re.t = "cat" ->
         IF Len(re.a) = 0 THEN [set |-> {}, open |-> TRUE]
         ELSE LET h == First(Head(re.a))
              IN  IF h.open
                  THEN LET r == First(Cat(Tail(re.a)))
                       IN  [set |-> h.set \cup r.set, open |-> r.open]
                  ELSE h
    [] re.t = "alt" ->
         IF Len(re.a) = 0 THEN [set |-> {}, open |-> FALSE]
         ELSE LET h == First(Head(re.a))
                  r == First(Alt(Tail(re.a)))
              IN  [set |-> h.set \cup r.set, open |-> h.open \/ r.open]
    [] re.t = "rep" ->
         LET r == First(re.r)
         IN  [set |-> r.set, open |-> r.open \/ re.lo = 0]
    [] re.t = "grp" -> First(re.r)
    [] re.t = "eos" -> [set |-> {}, open |-> FALSE]
    [] re.t = "notin" -> [set |-> {}, open |-> TRUE]
    [] OTHER -> [set |-> {}, open |-> TRUE]

(***************************************************************************)
(* SearchFrom: the leftmost match at or after position i, as RegExp.exec   *)
(* and String.match find it.  Group(m, s, g) is m[g], the empty sequence    *)
(* standing for both undefined and '' (the code only tests m[g] for truth). *)
(***************************************************************************)
RECURSIVE SearchRange(_, _, _, _, _, _)
SearchRange(re, s, ic, f, lo, hi) ==
  IF lo > hi THEN Fail
  ELSE IF lo = hi
  THEN IF f.open \/ (lo <= Len(s) /\ CharIn(ic, s[lo], f.set))
       THEN LET At(r) == IF r.ok THEN [r EXCEPT !.start = lo] ELSE Fail
            IN  At(Run(<<re>>, s, ic, lo, NoCaps))
       ELSE Fail
  ELSE LET mid == (lo + hi) \div 2
           left == SearchRange(re, s, ic, f, lo, mid)
       IN  IF left.ok THEN left ELSE SearchRange(re, s, ic, f, mid + 1, hi)

SearchFrom(re, s, ic, i) == SearchRange(re, s, ic, First(re), i, Len(s) + 1)

Match(re, s, ic) == SearchFrom(re, s, ic, 1)
Test(re, s, ic) == Match(re, s, ic).ok
Group(m, s, g) == SubSeq(s, m.caps[g][1], m.caps[g][2] - 1)

(***************************************************************************)
(* Numbers.  A JavaScript number of the parser is undefined, NaN, or the    *)
(* exact decimal m / 10^e, kept normalised (no trailing zero in m while     *)
(* e > 0) so that equal values are equal records.                           *)
(***************************************************************************)
Undef == [k |-> "undefined", m |-> 0, e |-> 0]
NaN == [k |-> "NaN", m |-> 0, e |-> 0]

RECURSIVE Pow10(_)
Pow10(n) == IF n = 0 THEN 1 ELSE 10 * Pow10(n - 1)

RECURSIVE Dec(_, _)
Dec(m, e) == IF e > 0 /\ m % 10 = 0 THEN Dec(m \div 10, e - 1)
             ELSE [k |-> "num", m |-> m, e |-> e]

IsNum(a) == a.k = "num"
IsNaN(a) == a.k # "num"
Defined(a) == a.k # "undefined"
Truthy(a) == a.k = "num" /\ a.m # 0
MaxOf(a, b) == IF a >= b THEN a ELSE b
AbsInt(a) == IF a < 0 THEN -a ELSE a
Scaled(a, e) == a.m * Pow10(e - a.e)

Add(a, b) == IF IsNum(a) /\ IsNum(b)
             THEN LET e == MaxOf(a.e, b.e) IN Dec(Scaled(a, e) + Scaled(b, e), e)
             ELSE NaN
Minus(a, b) == IF IsNum(b) THEN Add(a, Dec(-b.m, b.e)) ELSE NaN
Times(a, b) == IF IsNum(a) /\ IsNum(b) THEN Dec(a.m * b.m, a.e + b.e) ELSE NaN
Abs(a) == IF IsNum(a) THEN Dec(AbsInt(a.m), a.e) ELSE NaN
Lt(a, b) == /\ IsNum(a) /\ IsNum(b)
            /\ LET e == MaxOf(a.e, b.e) IN Scaled(a, e) < Scaled(b, e)
Gt(a, b) == Lt(b, a)
Le(a, b) == IsNum(a) /\ IsNum(b) /\ ~Lt(b, a)
Ge(a, b) == Le(b, a)

Zero == Dec(0, 0)
Hundred == Dec(100, 0)
Over100(a) == IF IsNum(a) THEN Dec(a.m, a.e + 2) ELSE NaN

(***************************************************************************)
(* parseFloat(x.toFixed(2)): x rounded to two decimals, ties away from 0.  *)
(* ToFixed2Quot(p, q) is parseFloat((p / q).toFixed(2)), the quotient being *)
(* rounded once, from its exact value.                                      *)
(***************************************************************************)
RoundDiv(p, q) ==
  LET sign == IF (p < 0) # (q < 0) THEN -1 ELSE 1
      whole == AbsInt(p) \div AbsInt(q)
      left == AbsInt(p) % AbsInt(q)
  IN  sign * (whole + (IF 2 * left >= AbsInt(q) THEN 1 ELSE 0))

ToFixed2(a) ==
  IF ~IsNum(a) THEN NaN
  ELSE IF a.e <= 2 THEN a
  ELSE Dec(RoundDiv(a.m, Pow10(a.e - 2)), 2)

ToFixed2Quot(p, q) ==
  IF ~(IsNum(p) /\ IsNum(q)) \/ q.m = 0 THEN NaN
  ELSE LET e == MaxOf(p.e, q.e)
           a == Scaled(p, e)
           b == Scaled(q, e)
           sign == IF (a < 0) # (b < 0) THEN -1 ELSE 1
           whole == AbsInt(a) \div AbsInt(b)
           left == AbsInt(a) % AbsInt(b)
       IN  Dec(sign * (100 * whole + RoundDiv(100 * left, AbsInt(b))), 2)

(***************************************************************************)
(* parseFloat on a character sequence: leading white space, an optional    *)
(* sign, then the longest prefix of digits with at most one '.'; NaN when   *)
(* that prefix has no digit.                                               *)
(***************************************************************************)
RECURSIVE DigitsVal(_)
DigitsVal(ds) ==
  IF Len(ds) = 0 THEN 0
  ELSE 10 * DigitsVal(SubSeq(ds, 1, Len(ds) - 1))
       + (CHOOSE v \in 0..9 : SubSeq("0123456789", v + 1, v + 1) = ds[Len(ds)])

parseFloat(cs) ==
  LET \* the digits from b to c - 1 and the fl digits after the '.' at c
      Number(neg, b, c, fl, mant) ==
        IF (c - b) + fl = 0 THEN NaN
        ELSE Dec(IF neg THEN -mant ELSE mant, fl)
      Fraction(neg, b, c, fl) ==
        Number(neg, b, c, fl,
               DigitsVal(SubSeq(cs, b, c - 1) \o SubSeq(cs, c + 1, c + fl)))
      Integral(neg, b, c) ==
        Fraction(neg, b, c,
                 IF c <= Len(cs) /\ cs[c] = "."
                 THEN RunLen(cs, FALSE, c + 1, Dg, Unbounded) ELSE 0)
      Sign(neg, b) == Integral(neg, b, b + RunLen(cs, FALSE, b, Dg, Unbounded))
      Blank(a) == Sign(a <= Len(cs) /\ cs[a] = "-",
                       IF a <= Len(cs) /\ cs[a] \in {"-", "+"} THEN a + 1 ELSE a)
  IN  Blank(1 + RunLen(cs, FALSE, 1, Ws, Unbounded))

(***************************************************************************)
(* String helpers of the code: replace(/c/g, ''), replace(/,/g, '.'),      *)
(* trim.                                                                   *)
(***************************************************************************)
RECURSIVE Without(_, _)
Without(cs, drop) ==
  IF Len(cs) = 0 THEN <<>>
  ELSE IF Head(cs) \in drop THEN Without(Tail(cs), drop)
  ELSE <<Head(cs)>> \o Without(Tail(cs), drop)

Subst(cs, from, to) ==
  SubSeq([i \in 1..Len(cs) |-> IF cs[i] = from THEN to ELSE cs[i]], 1, Len(cs))

Trim(cs) ==
  LET ink == {i \in 1..Len(cs) : cs[i] \notin Space}
  IN  IF ink = {} THEN <<>>
      ELSE SubSeq(cs, CHOOSE i \in ink : \A j \in ink : i <= j,
                      CHOOSE i \in ink : \A j \in ink : i >= j)

NoCommas(cs) == Without(cs, {","})

(***************************************************************************)
(* parseCurrency, parser.service.ts lines 34-67.                           *)
(***************************************************************************)
RECURSIVE Only(_, _)
Only(cs, keep) ==
  IF Len(cs) = 0 THEN <<>>
  ELSE IF Head(cs) \in keep THEN <<Head(cs)>> \o Only(Tail(cs), keep)
  ELSE Only(Tail(cs), keep)

DotThousandsA == Cat(<<Plus(Dg), Lit("."), Rep(Dg, 3, 3), Lit(","), Rep(Dg, 2, 2), Eos>>)
DotThousandsB == Cat(<<Rep(Dg, 1, 3), Plus(Cat(<<Lit("."), Rep(Dg, 3, 3)>>)),
                       Lit(","), Rep(Dg, 2, 2), Eos>>)
CommaDecimal == Cat(<<Plus(Dg), Lit(","), Rep(Dg, 1, 2), Eos>>)

parseCurrency(str) ==
  IF Len(str) = 0 THEN NaN
  ELSE LET s == Only(Trim(str), Digit \cup {",", ".", "-"})
           hasDot == \E i \in 1..Len(s) : s[i] = "."
           hasComma == \E i \in 1..Len(s) : s[i] = ","
       IN  IF hasDot /\ hasComma
           THEN IF Test(DotThousandsA, s, FALSE) \/ Test(DotThousandsB, s, FALSE)
                THEN parseFloat(Subst(Without(s, {"."}), ",", "."))
                ELSE parseFloat(NoCommas(s))
           ELSE IF hasComma /\ ~hasDot
           THEN IF Test(CommaDecimal, s, FALSE)
                THEN parseFloat(Subst(s, ",", "."))
                ELSE parseFloat(NoCommas(s))
           ELSE parseFloat(NoCommas(s))

(***************************************************************************)
(* replace(re, to) with the g flag: every leftmost non-overlapping match.  *)
(***************************************************************************)
RECURSIVE ReplaceFrom(_, _, _, _, _)
ReplaceFrom(re, cs, ic, to, i) ==
  LET Put(m) ==
        IF ~m.ok THEN SubSeq(cs, i, Len(cs))
        ELSE IF m.end = m.start
        THEN SubSeq(cs, i, m.start - 1) \o to \o SubSeq(cs, m.start, m.start)
             \o (IF m.start >= Len(cs) THEN <<>>
                 ELSE ReplaceFrom(re, cs, ic, to, m.start + 1))
        ELSE SubSeq(cs, i, m.start - 1) \o to \o ReplaceFrom(re, cs, ic, to, m.end)
  IN  Put(SearchFrom(re, cs, ic, i))

ReplaceAll(re, cs, ic, to) == ReplaceFrom(re, cs, ic, to, 1)

(***************************************************************************)
(* normalize, lines 17-29.  Texts are ASCII: the no-break space of line 24  *)
(* and the dashes of line 25 cannot occur, and neither can the accented     *)
(* letters and the euro and pound signs in the patterns further down.       *)
(***************************************************************************)
OcrLetter(c) == Cat(<<WordB, Lit(c), Ahead(Dg)>>)
NbspTabs == Plus(In({"\t"}))
SpaceBeforeNewline == Cat(<<Plus(Ws), Lit("\n")>>)
BlankLines == Rep(Lit("\n"), 2, Unbounded)

normalize(txt) ==
  LET a == ReplaceAll(Lit("\r"), txt, FALSE, <<"\n">>)
      b == ReplaceAll(OcrLetter("O"), a, FALSE, <<"0">>)
      c == ReplaceAll(OcrLetter("I"), b, FALSE, <<"1">>)
      d == ReplaceAll(OcrLetter("S"), c, FALSE, <<"5">>)
      e == ReplaceAll(NbspTabs, d, FALSE, <<" ">>)
      g == ReplaceAll(SpaceBeforeNewline, e, FALSE, <<"\n">>)
      h == ReplaceAll(BlankLines, g, FALSE, <<"\n">>)
  IN  Trim(h)

(***************************************************************************)
(* Pattern fragments shared by the ladders.                                 *)
(***************************************************************************)
Sp == Plus(Ws)
Ss == Star(Ws)
ColonSp == Star(In({":"} \cup Space))
Dollar == Opt(Lit("$"))
NonDigits == Star(NotIn(Digit))
NumDotComma == Plus(In(Digit \cup {",", "."}))
NumComma == Cat(<<Plus(In(Digit \cup {","})), Opt(Lit(".")), Star(Dg)>>)
Percent == Cat(<<Rep(Dg, 1, 2), Opt(Cat(<<Lit("."), Plus(Dg)>>))>>)
TaxWords == Alt(<<Lit("tax"), Lit("impuesto"), Lit("iva"), Lit("itbms"),
                  Lit("vat"), Lit("gst")>>)

(***************************************************************************)
(* Money candidate scan, lines 69-83.                                       *)
(***************************************************************************)
moneyPattern ==
  Cat(<<Opt(Alt(<<Lit("$"), Lit("USD"), Lit("EUR"), Lit("GBP")>>)),
        Ss,
        Grp(1, Cat(<<Rep(Dg, 1, 3),
                     Star(Cat(<<In({".", ","} \cup Space), Rep(Dg, 3, 3)>>)),
                     Opt(Cat(<<In({".", ","}), Rep(Dg, 1, 2)>>))>>))>>)

RECURSIVE Insert(_, _)
Insert(v, sorted) ==
  IF Len(sorted) = 0 THEN <<v>>
  ELSE IF Lt(Head(sorted), v) THEN <<v>> \o sorted
  ELSE <<Head(sorted)>> \o Insert(v, Tail(sorted))

RECURSIVE SortDesc(_)
SortDesc(vs) ==
  IF Len(vs) = 0 THEN <<>>
  ELSE Insert(vs[Len(vs)], SortDesc(SubSeq(vs, 1, Len(vs) - 1)))

(***************************************************************************)
(* Section segmentation, lines 85-92.                                       *)
(***************************************************************************)
desglosePattern ==
  Cat(<<Grp(1, Alt(<<Cat(<<Lit("desglose"), Sp, Lit("itbms")>>),
                     Cat(<<Lit("valor"), Sp, Lit("total")>>),
                     Cat(<<Lit("total"), Opt(Lit("s"))>>),
                     Cat(<<Lit("amount"), Opt(Lit("s")), Sp, Lit("breakdown")>>)>>)),
        Grp(2, Star(AnyCh))>>)

totalsSectionPattern ==
  Cat(<<Grp(1, Alt(<<Cat(<<Lit("valor"), Sp, Lit("total")>>),
                     Cat(<<Lit("total"), Sp, Lit("pagado")>>),
                     Lit("desglose"),
                     Cat(<<Lit("total"), Opt(Lit("s"))>>),
                     Cat(<<Lit("amount"), Sp, Lit("paid")>>)>>)),
        Grp(2, Lazy(AnyCh, 0, Unbounded)),
        Alt(<<Cat(<<Lit("forma"), Sp, Lit("de"), Sp, Lit("pago")>>),
              Cat(<<Lit("payment"), Sp, Lit("method")>>),
              Cat(<<Lit("p"), Lit("a"), Lit("gina")>>),
              Lit("page"),
              Eos>>)>>)

totalsSection(text) ==
  LET Section(desgloseMatch) ==
        IF desgloseMatch.ok THEN Group(desgloseMatch, text, 2) ELSE text
  IN  Section(Match(desglosePattern, text, TRUE))

extractionTextOf(text) ==
  LET Section(totalsMatch) ==
        IF totalsMatch.ok THEN Group(totalsMatch, text, 2) ELSE totalsSection(text)
  IN  Section(Match(totalsSectionPattern, text, TRUE))

(***************************************************************************)
(* 1. Subtotal ladder, lines 95-115.                                        *)
(***************************************************************************)
OptNum == Opt(Grp(1, NumDotComma))
subtotalPatterns == <<
  Cat(<<Lit("monto"), Sp, Lit("gravado"), Sp, Alt(<<Lit("itbms"), Lit("tbws")>>),
        NonDigits, OptNum>>),
  Cat(<<Lit("monto"), Ss, Lit("base"), NonDigits, OptNum>>),
  Cat(<<Lit("sub"), Opt(In(Space \cup {"-"})), Lit("total"), ColonSp, Dollar, Ss, OptNum>>),
  Cat(<<Lit("subtotal"), ColonSp, Dollar, Ss, OptNum>>),
  Cat(<<Lit("importe"), Ss, Lit("base"), ColonSp, Dollar, Ss, OptNum>>),
  Cat(<<Lit("base"), Ss, Lit("imponible"), ColonSp, Dollar, Ss, OptNum>>),
  Cat(<<Lit("amount"), Ss, Lit("before"), Ss, Lit("tax"), ColonSp, Dollar, Ss, OptNum>>),
  Cat(<<Lit("amount"), Ss, Lit("net"), ColonSp, Dollar, Ss, OptNum>> ) >>

RECURSIVE SubtotalFrom(_, _)
SubtotalFrom(et, p) ==
  IF p > Len(subtotalPatterns) THEN Undef
  ELSE LET Parsed(subtotalMatch, v) ==
             IF subtotalMatch.ok /\ Len(Group(subtotalMatch, et, 1)) > 0 /\ Gt(v, Zero)
             THEN v
             ELSE SubtotalFrom(et, p + 1)
           Matched(subtotalMatch) ==
             Parsed(subtotalMatch, parseFloat(NoCommas(Group(subtotalMatch, et, 1))))
       IN  Matched(Match(subtotalPatterns[p], et, TRUE))

(***************************************************************************)
(* 2. Tax percentage ladder, lines 118-139.                                 *)
(***************************************************************************)
taxPercentPatterns == <<
  Cat(<<Grp(1, Percent), Ss, Lit("%"), Ss, Opt(TaxWords)>>),
  Cat(<<TaxWords, ColonSp, Grp(1, Percent), Ss, Lit("%")>>),
  Cat(<<Lit("rate"), ColonSp, Grp(1, Percent), Ss, Lit("%")>>),
  Cat(<<Grp(1, Percent), Ss, Lit("%")>>) >>

RECURSIVE TaxPercentFrom(_, _)
TaxPercentFrom(et, p) ==
  IF p > Len(taxPercentPatterns) THEN Undef
  ELSE LET Parsed(taxPercentMatch, percentValue, percent) ==
             IF /\ taxPercentMatch.ok /\ Len(percentValue) > 0
                /\ Ge(percent, Zero) /\ Le(percent, Dec(25, 0))
             THEN percent
             ELSE TaxPercentFrom(et, p + 1)
           Picked(taxPercentMatch, percentValue) ==
             Parsed(taxPercentMatch, percentValue, parseFloat(percentValue))
           Matched(taxPercentMatch) ==
             Picked(taxPercentMatch,
                    IF Len(Group(taxPercentMatch, et, 2)) > 0
                    THEN Group(taxPercentMatch, et, 2)
                    ELSE Group(taxPercentMatch, et, 1))
       IN  Matched(Match(taxPercentPatterns[p], et, TRUE))

(***************************************************************************)
(* 3. Tax amount ladder, lines 142-179.  The first pattern is written with  *)
(* doubled backslashes in the source, so it matches literal backslashes.    *)
(***************************************************************************)
BsDComma == Plus(In({"\\", "d", ","}))
taxAmountPatterns == <<
  Cat(<<Grp(1, Cat(<<BsDComma, Lit("\\"), Dot, Lit("\\"), Rep(Lit("d"), 2, 2)>>)),
        Lit("\\"), Plus(Lit("s")), Lit("total"), Lit("\\"), Plus(Lit("s")),
        Grp(2, Cat(<<BsDComma, Lit("\\"), Opt(Dot), Lit("\\"), Star(Lit("d"))>>))>>),
  Cat(<<Grp(1, NumComma), Ss, Lit("|"), Ss, Grp(2, Plus(Dg)), Ss, Lit("|"), Ss,
        Grp(3, NumComma)>>),
  Cat(<<Lit("total"), Sp, Lit("impuesto"), NonDigits, Grp(1, NumComma)>>),
  Cat(<<Lit("toul"), Sp, Lit("impusstel"), NonDigits, Grp(1, NumComma)>>),
  Cat(<<Lit("total"), Sp, Lit("tax"), NonDigits, Grp(1, NumComma)>>),
  Cat(<<Alt(<<Lit("itbms"), Lit("impuesto"), Lit("iva"), Lit("vat"),
              Cat(<<Lit("sales"), Sp, Lit("tax")>>), Lit("gst")>>),
        NotAhead(Cat(<<Star(Dot), Lit("unitario")>>)),
        NonDigits,
        Grp(1, Cat(<<Rep(Dg, 1, 3),
                     Star(Cat(<<In({".", ","}), Rep(Dg, 3, 3)>>)),
                     Opt(Cat(<<In({".", ","}), Rep(Dg, 1, 2)>>))>>)),
        Alt(<<Ws, Eos>>)>>),
  Cat(<<Lit("tax"), ColonSp, Grp(1, NumDotComma), Ss, Opt(Lit("amount"))>>) >>

\* the i flag of each pattern (the second one has none)
taxAmountIgnoreCase == <<TRUE, FALSE, TRUE, TRUE, TRUE, TRUE, TRUE>>

\* lines 158-168: the candidate of one match; Undef stands for null
TaxCandidate(taxMatch, et) ==
  LET Pick(g1, g2, g3, val1, val2) ==
        IF Len(g3) > 0 THEN parseFloat(NoCommas(g3))
        ELSE IF Len(g2) > 0 /\ Len(g1) > 0 THEN (IF Lt(val1, val2) THEN val1 ELSE Undef)
        ELSE IF Len(g1) > 0 THEN val1
        ELSE Undef
      Groups(g1, g2, g3) ==
        Pick(g1, g2, g3, parseFloat(NoCommas(g1)), parseFloat(NoCommas(g2)))
  IN  Groups(Group(taxMatch, et, 1), Group(taxMatch, et, 2), Group(taxMatch, et, 3))

\* lines 170-176
TaxAccepted(taxValue, d) ==
  /\ Defined(taxValue) /\ Ge(taxValue, Zero)
  /\ ~Truthy(d.amount) \/ Lt(taxValue, d.amount)
  /\ ~Truthy(d.subtotalAmount) \/ Lt(taxValue, d.subtotalAmount)

RECURSIVE TaxAmountFrom(_, _, _)
TaxAmountFrom(et, d, p) ==
  IF p > Len(taxAmountPatterns) THEN Undef
  ELSE LET Checked(taxMatch, taxValue) ==
             IF taxMatch.ok /\ TaxAccepted(taxValue, d) THEN taxValue
             ELSE TaxAmountFrom(et, d, p + 1)
           Matched(taxMatch) == Checked(taxMatch, TaxCandidate(taxMatch, et))
       IN  Matched(Match(taxAmountPatterns[p], et, taxAmountIgnoreCase[p]))

(***************************************************************************)
(* 4. Total ladder, lines 182-202.                                          *)
(***************************************************************************)
TotalTail == Cat(<<ColonSp, Dollar, Ss, Grp(1, NumDotComma)>>)
totalPatterns == <<
  Cat(<<Lit("total"), Sp, Lit("pagado"), TotalTail>>),
  Cat(<<Lit("valor"), Sp, Lit("total"), TotalTail>>),
  Cat(<<Lit("total"), Opt(Cat(<<Sp, Lit("a"), Sp, Lit("pagar")>>)), TotalTail>>),
  Cat(<<Lit("total"), Sp, Lit("general"), TotalTail>>),
  Cat(<<Lit("importe"), Sp, Lit("total"), TotalTail>>),
  Cat(<<Lit("gran"), Sp, Lit("total"), TotalTail>>),
  Cat(<<Lit("amount"), Sp, Lit("paid"), TotalTail>>),
  Cat(<<Lit("total"), TotalTail>>) >>

RECURSIVE TotalFrom(_, _)
\* the ladder without the isNaN test of line 197
TotalFromUnchecked(raw, p) ==
  IF p > Len(totalPatterns) THEN Undef
  ELSE LET Parsed(totalMatch, parsed) ==
             IF totalMatch.ok /\ Len(Group(totalMatch, raw, 1)) > 0
             THEN parsed
             ELSE TotalFrom(raw, p + 1)
           Matched(totalMatch) ==
             Parsed(totalMatch, parseCurrency(Group(totalMatch, raw, 1)))
       IN  Matched(Match(totalPatterns[p], raw, TRUE))

TotalFrom(raw, p) ==
  IF p > Len(totalPatterns) THEN Undef
  ELSE LET Parsed(totalMatch, parsed) ==
             IF totalMatch.ok /\ Len(Group(totalMatch, raw, 1)) > 0 /\ ~IsNaN(parsed)
             THEN parsed
             ELSE TotalFrom(raw, p + 1)
           Matched(totalMatch) ==
             Parsed(totalMatch, parseCurrency(Group(totalMatch, raw, 1)))
       IN  Matched(Match(totalPatterns[p], raw, TRUE))

\* lines 205-212: fallback to the largest candidate, then two decimals
TotalFallback(amount, sortedAmounts) ==
  LET maxAmount == IF Len(sortedAmounts) > 0 THEN sortedAmounts[1] ELSE Undef
  IN  IF ~Truthy(amount) /\ Truthy(maxAmount) THEN maxAmount ELSE amount

TotalCleaned(amount) == IF Truthy(amount) THEN ToFixed2(amount) ELSE amount

(***************************************************************************)
(* 6. Vendor name, lines 230-263.  An optional string is a sequence of at  *)
(* most one string.                                                        *)
(***************************************************************************)
RestOfLine == Grp(1, Plus(NotIn({"\n"})))
vendorPatterns == <<
  Cat(<<Alt(<<Lit("emisor"), Cat(<<Lit("raz"), Lit("o"), Lit("n"), Sp, Lit("social")>>),
              Lit("rnc"), Lit("nit")>>), ColonSp, RestOfLine>>),
  Cat(<<Alt(<<Lit("vendor"), Lit("vendedor"), Lit("supplier"),
              Cat(<<Lit("supplier"), Sp, Lit("name")>>), Lit("nombre")>>),
        ColonSp, RestOfLine>>),
  Cat(<<Alt(<<Lit("empresa"), Lit("company"), Lit("business")>>), ColonSp, RestOfLine>>),
  Cat(<<Alt(<<Cat(<<Lit("nombre"), Sp, Lit("comercial")>>),
              Cat(<<Lit("trade"), Sp, Lit("name")>>)>>), ColonSp, RestOfLine>>) >>

RECURSIVE VendorFrom(_, _)
VendorFrom(raw, p) ==
  IF p > Len(vendorPatterns) THEN <<>>
  ELSE LET Matched(vendorMatch) ==
             IF vendorMatch.ok /\ Len(Group(vendorMatch, raw, 1)) > 0
             THEN <<Str(Trim(Group(vendorMatch, raw, 1)))>>
             ELSE VendorFrom(raw, p + 1)
       IN  Matched(Match(vendorPatterns[p], raw, TRUE))

skipPatterns == <<
  Lit("factura"), Lit("invoice"), Lit("receipt"), Lit("comprobante"),
  Lit("fecha"), Lit("date"), Lit("folio"),
  Cat(<<Lit("pag"), In({"i", "a"}), Lit("na")>>), Lit("http"),
  Cat(<<Bos, Plus(Dg), Eos>>), Cat(<<Bos, In(Upper), Eos>>), Lit("ticket") >>
skipIgnoreCase == <<TRUE, TRUE, TRUE, TRUE, TRUE, TRUE, TRUE, TRUE, TRUE, FALSE, FALSE, TRUE>>

RECURSIVE Split(_)
Split(cs) ==
  LET nl == {i \in 1..Len(cs) : cs[i] = "\n"}
  IN  IF nl = {} THEN <<cs>>
      ELSE LET i == CHOOSE j \in nl : \A l \in nl : j <= l
           IN  <<SubSeq(cs, 1, i - 1)>> \o Split(SubSeq(cs, i + 1, Len(cs)))

Skipped(line) ==
  \/ Len(line) < 3
  \/ \E p \in 1..Len(skipPatterns) : Test(skipPatterns[p], line, skipIgnoreCase[p])
  \/ /\ \E i \in 1..Len(line) : line[i] \in Digit
     /\ \E i \in 1..Len(line) : line[i] \in Letter
     /\ Len(line) < 6

RECURSIVE FirstLine(_)
FirstLine(lines) ==
  IF Len(lines) = 0 THEN <<>>
  ELSE LET line == Trim(Head(lines))
       IN  IF Len(line) = 0 \/ Skipped(line) THEN FirstLine(Tail(lines))
           ELSE <<Str(line)>>

VendorName(raw, text) ==
  LET \* !data.vendorName: absent or the empty string
      Named(labelled, line) ==
        IF (Len(labelled) = 0 \/ labelled[1] = "") /\ Len(line) > 0
        THEN line ELSE labelled
  IN  Named(VendorFrom(raw, 1), FirstLine(Split(text)))

(***************************************************************************)
(* Paso 1, lines 302-311: the zero-tax pattern.                             *)
(***************************************************************************)
zeroTaxPattern ==
  Cat(<<Alt(<<Lit("itbms"), Lit("tax"), Lit("impuesto")>>), NonDigits,
        Plus(Lit("0")), Lit("."), Plus(Lit("0"))>>)

P05 == Dec(5, 2)
P10 == Dec(1, 1)

(***************************************************************************)
(* The state of one ReceiptParser.parse call, and of the calls before it.  *)
(***************************************************************************)
VARIABLES
  rawText,          \* the argument of parse
  pc,               \* the statement parse is at
  text,             \* normalize(rawText)
  lastIndex,        \* moneyPattern.lastIndex (the g flag), 0-based
  moneyMatches,     \* the array the scan pushes to, sorted in place at line 82
  extractionText,   \* the segment the subtotal and tax ladders read
  data,             \* the record under construction, returned at line 408
  initial,          \* the values logged at line 300, before post-processing
  returned,         \* the calls that have returned: argument and record
  token,            \* the argument of a parseCurrency call on its own
  value,            \* what that call returned
  requests,         \* the POST /api/receipts requests: where each one is
  receipts,         \* the in-memory store of receipts.routes.ts line 31
  fetched           \* the answer to the latest GET /api/receipts/:id

tokenVars == <<token, value>>
vars == <<rawText, pc, text, lastIndex, moneyMatches, extractionText, data,
          initial, returned, tokenVars, requests, receipts, fetched>>

NoData == [amount |-> Undef, subtotalAmount |-> Undef, taxAmount |-> Undef,
           taxPercentage |-> Undef, vendorName |-> <<>>]

(***************************************************************************)
(* Post-processing, lines 302-398: each step as a function of the record.  *)
(***************************************************************************)
Paso1(d, raw) ==
  IF Truthy(d.amount) /\ ~Truthy(d.taxAmount) /\ ~Truthy(d.taxPercentage)
     /\ Test(zeroTaxPattern, raw, TRUE)
  THEN [d EXCEPT !.taxAmount = Zero, !.taxPercentage = Zero,
                 !.subtotalAmount = d.amount]
  ELSE d

Paso2(d) ==
  IF ~Truthy(d.subtotalAmount) /\ Defined(d.amount) /\ Defined(d.taxAmount)
  THEN [d EXCEPT !.subtotalAmount = ToFixed2(Minus(d.amount, d.taxAmount))]
  ELSE d

Paso2_5(d) ==
  IF ~Truthy(d.subtotalAmount) /\ Truthy(d.amount) /\ Truthy(d.taxPercentage)
  THEN LET subtotal == ToFixed2Quot(d.amount, Add(Dec(1, 0), Over100(d.taxPercentage)))
       IN  [d EXCEPT !.subtotalAmount = subtotal,
                     !.taxAmount = IF ~Defined(d.taxAmount)
                                   THEN ToFixed2(Minus(d.amount, subtotal))
                                   ELSE d.taxAmount]
  ELSE d

CalculatedTax(d) == ToFixed2(Times(d.subtotalAmount, Over100(d.taxPercentage)))

\* Paso 3 that never overrides a tax amount it already has
Paso3KeepExtracted(d) ==
  IF Truthy(d.subtotalAmount) /\ Defined(d.taxPercentage) /\ ~Defined(d.taxAmount)
  THEN [d EXCEPT !.taxAmount = CalculatedTax(d)]
  ELSE d

Paso3(d) ==
  IF Truthy(d.subtotalAmount) /\ Defined(d.taxPercentage)
  THEN IF Defined(d.taxAmount)
       THEN IF Gt(Abs(Minus(CalculatedTax(d), d.taxAmount)), P05)
            THEN [d EXCEPT !.taxAmount = CalculatedTax(d)]
            ELSE d
       ELSE [d EXCEPT !.taxAmount = CalculatedTax(d)]
  ELSE d

Paso4(d) ==
  IF ~Defined(d.taxAmount) /\ Truthy(d.amount) /\ Truthy(d.subtotalAmount)
  THEN [d EXCEPT !.taxAmount = ToFixed2(Minus(d.amount, d.subtotalAmount))]
  ELSE d

DerivedPercentage(d) == ToFixed2Quot(Times(d.taxAmount, Hundred), d.subtotalAmount)

Paso5(d) ==
  IF ~Truthy(d.taxPercentage) /\ Defined(d.taxAmount)
     /\ Truthy(d.subtotalAmount) /\ Gt(d.subtotalAmount, Zero)
  THEN [d EXCEPT !.taxPercentage = DerivedPercentage(d)]
  ELSE d

Paso6(d) ==
  IF ~Truthy(d.amount) /\ Truthy(d.subtotalAmount) /\ Defined(d.taxAmount)
  THEN [d EXCEPT !.amount = ToFixed2(Add(d.subtotalAmount, d.taxAmount))]
  ELSE d

Paso7(d) ==
  IF Truthy(d.subtotalAmount) /\ Defined(d.taxAmount) /\ Truthy(d.amount)
  THEN LET calculatedTotal == ToFixed2(Add(d.subtotalAmount, d.taxAmount))
           diff == Abs(Minus(calculatedTotal, d.amount))
           adjusted == [d EXCEPT !.taxAmount = ToFixed2(Minus(d.amount, d.subtotalAmount))]
       IN  IF Gt(diff, P10)
           THEN IF Gt(d.subtotalAmount, Zero)
                THEN [adjusted EXCEPT !.taxPercentage = DerivedPercentage(adjusted)]
                ELSE adjusted
           ELSE d
  ELSE d

\* Paso 8 reading sortedAmounts[0] in place of sortedAmounts[1]
Paso8Largest(d, sortedAmounts) ==
  IF ~Truthy(d.subtotalAmount) /\ Defined(d.amount)
  THEN IF /\ Len(sortedAmounts) > 1
          /\ Lt(sortedAmounts[1], d.amount) /\ Gt(sortedAmounts[1], Zero)
       THEN [d EXCEPT !.subtotalAmount = sortedAmounts[1],
                      !.taxAmount = IF ~Truthy(d.taxAmount)
                                    THEN ToFixed2(Minus(d.amount, sortedAmounts[1]))
                                    ELSE d.taxAmount]
       ELSE [d EXCEPT !.subtotalAmount = d.amount]
  ELSE d

Paso8(d, sortedAmounts) ==
  IF ~Truthy(d.subtotalAmount) /\ Defined(d.amount)
  THEN IF /\ Len(sortedAmounts) > 1
          /\ Lt(sortedAmounts[2], d.amount) /\ Gt(sortedAmounts[2], Zero)
       THEN [d EXCEPT !.subtotalAmount = sortedAmounts[2],
                      !.taxAmount = IF ~Truthy(d.taxAmount)
                                    THEN ToFixed2(Minus(d.amount, sortedAmounts[2]))
                                    ELSE d.taxAmount]
       ELSE [d EXCEPT !.subtotalAmount = d.amount]
  ELSE d

(***************************************************************************)
(* Input texts: the scenarios of the documentation and of the review, and  *)
(* every text of at most MaxLines lines drawn from Lines.                   *)
(***************************************************************************)
ScenarioA == "Acme Corp\nSubtotal: $100.00\nTax 7%\nTotal: $107.00"
ScenarioB == "ITBMS 0.00\nTotal: $50.00"
ScenarioC == "Total: 110.00\nSubtotal: 100.00\nTax: 5.00"
ScenarioD == "Total $88.00"
Scenarios == {ScenarioA, ScenarioB, ScenarioC, ScenarioD,
              "MOCK TEXT: TOTAL $88.00",
              "ITBMS 0.00\nTotal: 0.00",
              "Total: 907.00\nSubtotal: 900.00",
              "Total: 10.00\nTax: 20.00\n7%",
              "Total: 50.00\n0%",
              "Total: .", "Tax: ,\nTotal: ,", "Subtotal: .\n20.00\n5 %",
              "Total: 0.00\n20.00",
              "Amount breakdown\nTax: 5.00\nPage 1\n20.00",
              "Items\tO5  \r\n\n\nDesglose ITBMS\nMonto base S00.00\nITBMS 7% 35.00\nValor Total 535.00  \nForma de pago: Visa\nPage 1"}

Lines == <<"Total: 1.234,56", "Total: 50.00", "Tax: 50.00", "Tax: 5.00", "Subtotal: 10.00", "7%", "20.00">>
MaxLines == 2

RECURSIVE Join(_)
Join(ls) == IF Len(ls) = 1 THEN Lines[ls[1]]
            ELSE Lines[ls[1]] \o "\n" \o Join(Tail(ls))

Texts == Scenarios \cup
         UNION {{Join(ls) : ls \in [1..n -> 1..Len(Lines)]} : n \in 1..MaxLines}

\* the text another caller has parsed in between
Interleaved == "Subtotal 400.00\nTax 28.00\nTotal 428.00"
MaxCalls == 3

(***************************************************************************)
(* The statements of parse, in order.                                      *)
(***************************************************************************)
Init ==
  /\ rawText \in Texts
  /\ pc = "normalize"
  /\ text = ""
  /\ lastIndex = 0
  /\ moneyMatches = <<>>
  /\ extractionText = ""
  /\ data = NoData
  /\ initial = NoData
  /\ returned = <<>>
  /\ token = ""
  /\ value = Undef
  /\ requests = <<>>
  /\ receipts = {}
  /\ fetched = [status |-> 0, body |-> ""]

Normalize ==
  /\ pc = "normalize"
  /\ text' = Str(normalize(Chars(rawText)))
  /\ pc' = "scan"
  /\ UNCHANGED <<rawText, lastIndex, moneyMatches, extractionText, data, initial,
                 returned, tokenVars,
                 requests, receipts, fetched>>

\* one turn of the while loop of lines 73-80: exec from lastIndex; a match is
\* parsed and pushed, no match ends the loop and resets lastIndex
Exec(raw, index, matches) ==
  LET Pushed(match, val) ==
        IF match.ok
        THEN [found |-> TRUE, lastIndex |-> match.end - 1,
              moneyMatches |-> IF Len(Group(match, raw, 1)) > 0 /\ ~IsNaN(val)
                               THEN Append(matches, val) ELSE matches]
        ELSE [found |-> FALSE, lastIndex |-> 0, moneyMatches |-> matches]
      Matched(match) == Pushed(match, parseFloat(NoCommas(Group(match, raw, 1))))
  IN  Matched(SearchFrom(moneyPattern, raw, TRUE, index + 1))

ScanMoney ==
  /\ pc = "scan"
  /\ LET Turn(turn) == /\ lastIndex' = turn.lastIndex
                       /\ moneyMatches' = turn.moneyMatches
                       /\ pc' = IF turn.found THEN "scan" ELSE "sort"
     IN  Turn(Exec(Chars(rawText), lastIndex, moneyMatches))
  /\ UNCHANGED <<rawText, text, extractionText, data, initial, returned, tokenVars,
                 requests, receipts, fetched>>

SortAmounts ==
  /\ pc = "sort"
  /\ moneyMatches' = SortDesc(moneyMatches)
  /\ pc' = "segment"
  /\ UNCHANGED <<rawText, text, lastIndex, extractionText, data, initial,
                 returned, tokenVars,
                 requests, receipts, fetched>>

Segment ==
  /\ pc = "segment"
  /\ extractionText' = Str(extractionTextOf(Chars(text)))
  /\ pc' = "subtotal"
  /\ UNCHANGED <<rawText, text, lastIndex, moneyMatches, data, initial,
                 returned, tokenVars,
                 requests, receipts, fetched>>

\* a step that only rewrites the record
Step(from, to, d) ==
  /\ pc = from
  /\ data' = d
  /\ pc' = to
  /\ UNCHANGED <<rawText, text, lastIndex, moneyMatches, extractionText, initial,
                 returned, tokenVars,
                 requests, receipts, fetched>>

Assign(d, field, v) == IF Defined(v) THEN [d EXCEPT ![field] = v] ELSE d

ExtractSubtotal ==
  Step("subtotal", "taxPercent",
       Assign(data, "subtotalAmount", SubtotalFrom(Chars(extractionText), 1)))

ExtractTaxPercent ==
  Step("taxPercent", "taxAmount",
       Assign(data, "taxPercentage", TaxPercentFrom(Chars(extractionText), 1)))

ExtractTaxAmount ==
  Step("taxAmount", "total",
       Assign(data, "taxAmount", TaxAmountFrom(Chars(extractionText), data, 1)))

ExtractTotal ==
  Step("total", "totalFallback",
       Assign(data, "amount", TotalFrom(Chars(rawText), 1)))

FallbackTotal ==
  Step("totalFallback", "totalClean",
       [data EXCEPT !.amount = TotalFallback(data.amount, moneyMatches)])

CleanTotal ==
  Step("totalClean", "vendor", [data EXCEPT !.amount = TotalCleaned(data.amount)])

ExtractVendor ==
  Step("vendor", "postProcess",
       [data EXCEPT !.vendorName = VendorName(Chars(rawText), Chars(text))])

\* lines 299-300: the extracted values are logged before they are reconciled
StartPostProcessing ==
  /\ pc = "postProcess"
  /\ initial' = data
  /\ pc' = "paso1"
  /\ UNCHANGED <<rawText, text, lastIndex, moneyMatches, extractionText, data,
                 returned, tokenVars,
                 requests, receipts, fetched>>

DoPaso1 == Step("paso1", "paso2", Paso1(data, Chars(rawText)))
DoPaso2 == Step("paso2", "paso2_5", Paso2(data))
DoPaso2_5 == Step("paso2_5", "paso3", Paso2_5(data))
DoPaso3 == Step("paso3", "paso4", Paso3(data))
DoPaso4 == Step("paso4", "paso5", Paso4(data))
DoPaso5 == Step("paso5", "paso6", Paso5(data))
DoPaso6 == Step("paso6", "paso7", Paso6(data))
DoPaso7 == Step("paso7", "paso8", Paso7(data))
DoPaso8 == Step("paso8", "return", Paso8(data, moneyMatches))

\* line 408
Return ==
  /\ pc = "return"
  /\ pc' = "done"
  /\ returned' = Append(returned, [rawText |-> rawText, data |-> data])
  /\ UNCHANGED <<rawText, text, lastIndex, moneyMatches, extractionText, data,
                 initial, tokenVars,
                 requests, receipts, fetched>>

\* lines 8-14, 70-72: a further call of parse, on the first text again or on
\* another one (the last call is on the first text again); the record, the
\* pattern and the array are created afresh
\* (KeptMatches: an array that outlives the call)
KeptMatches(old) == old
FreshMatches(old) == <<>>
FreshLastIndex(old) == 0

ParseAgain ==
  /\ pc = "done"
  /\ Len(returned) < MaxCalls
  /\ rawText' \in IF Len(returned) = MaxCalls - 1 THEN {returned[1].rawText}
                  ELSE {returned[1].rawText, Interleaved}
  /\ pc' = "normalize"
  /\ text' = ""
  /\ lastIndex' = FreshLastIndex(lastIndex)
  /\ moneyMatches' = FreshMatches(moneyMatches)
  /\ extractionText' = ""
  /\ data' = NoData
  /\ initial' = NoData
  /\ UNCHANGED <<returned, tokenVars,
                 requests, receipts, fetched>>

Next ==
  \/ Normalize \/ ScanMoney \/ SortAmounts \/ Segment
  \/ ExtractSubtotal \/ ExtractTaxPercent \/ ExtractTaxAmount
  \/ ExtractTotal \/ FallbackTotal \/ CleanTotal \/ ExtractVendor
  \/ StartPostProcessing
  \/ DoPaso1 \/ DoPaso2 \/ DoPaso2_5 \/ DoPaso3 \/ DoPaso4
  \/ DoPaso5 \/ DoPaso6 \/ DoPaso7 \/ DoPaso8
  \/ Return \/ ParseAgain

Spec == Init /\ [][Next]_vars

(***************************************************************************)
(* parseCurrency on its own, lines 34-67: one call on one token.  A token  *)
(* is a head of digits and up to two further groups, each after a '.' or   *)
(* a ','.                                                                   *)
(***************************************************************************)
Tokens ==
  LET Heads == {"1", "12", "123", "1234", "$1", "-12"}
      Mids == {"", "2", "23", "234"}
      Tails == {"", "5", "56", "567"}
      Separators == {".", ","}
  IN  {"", "1.234,56", "1,234.56", "1234", "USD 12"}
      \cup {h \o a \o t : h \in Heads, a \in Separators, t \in Tails}
      \cup {h \o a \o m \o b \o t :
              h \in Heads, a \in Separators, m \in Mids, b \in Separators, t \in Tails}

InitCurrency ==
  /\ token \in Tokens
  /\ value = Undef
  /\ pc = "parseCurrency"
  /\ rawText = ""
  /\ text = ""
  /\ lastIndex = 0
  /\ moneyMatches = <<>>
  /\ extractionText = ""
  /\ data = NoData
  /\ initial = NoData
  /\ returned = <<>>
  /\ requests = <<>>
  /\ receipts = {}
  /\ fetched = [status |-> 0, body |-> ""]

ParseCurrency ==
  /\ pc = "parseCurrency"
  /\ value' = parseCurrency(Chars(token))
  /\ pc' = "parsed"
  /\ UNCHANGED <<rawText, text, lastIndex, moneyMatches, extractionText, data,
                 initial, returned, token, requests, receipts, fetched>>

SpecCurrency == InitCurrency /\ [][ParseCurrency]_vars

(***************************************************************************)
(* The upload handler, src/src/routes/receipts.routes.ts lines 17-116.     *)
(* Requests interleave at each await; the code between two awaits is one   *)
(* step.  A request's id is its uuid (line 50), unique to it.  The record   *)
(* the parser returns carries rawText (parser.service.ts lines 12-14),     *)
(* which stands for it in the stored result.                               *)
(***************************************************************************)
MaxRequests == 2

\* lines 20-27
fileFilter(mimetype) ==
  mimetype \in {"image/png", "image/jpeg", "image/jpg", "application/pdf"}

InitUpload ==
  /\ requests = [r \in 1..MaxRequests |->
                   [pc |-> "new", file |-> "none", ocr |-> "pending",
                    parse |-> "pending", error |-> FALSE, unlinks |-> 0,
                    deleted |-> FALSE, status |-> 0, body |-> ""]]
  /\ receipts = {}
  /\ fetched = [status |-> 0, body |-> ""]
  /\ pc = "upload"
  /\ rawText = ""
  /\ text = ""
  /\ lastIndex = 0
  /\ moneyMatches = <<>>
  /\ extractionText = ""
  /\ data = NoData
  /\ initial = NoData
  /\ returned = <<>>
  /\ token = ""
  /\ value = Undef

\* line 43, upload.single('file'): a request without a file part goes on
\* with req.file unset; a part the filter accepts is written to a temporary
\* file; a part it refuses never reaches the handler
Upload(r) ==
  /\ requests[r].pc = "new"
  /\ \E part \in {"none", "image/png", "application/pdf", "text/plain"} :
        requests' = [requests EXCEPT ![r] =
          IF part = "none" THEN [@ EXCEPT !.pc = "handler"]
          ELSE IF fileFilter(part) THEN [@ EXCEPT !.pc = "handler", !.file = "accepted"]
          ELSE [@ EXCEPT !.pc = "rejected", !.file = "rejected"]]
  /\ UNCHANGED <<receipts, fetched, rawText, pc, text, lastIndex, moneyMatches,
                 extractionText, data, initial, returned, tokenVars>>

\* lines 44-57: up to the await of ocr.extractText
Post(r) ==
  /\ requests[r].pc = "handler"
  /\ requests' = [requests EXCEPT ![r] =
        IF @.file # "accepted"
        THEN [@ EXCEPT !.pc = "done", !.status = 400, !.body = "No file uploaded"]
        ELSE [@ EXCEPT !.pc = "ocr"]]
  /\ UNCHANGED <<receipts, fetched, rawText, pc, text, lastIndex, moneyMatches,
                 extractionText, data, initial, returned, tokenVars>>

\* lines 57-86: extractText settles, with a text or by throwing (part_000
\* lines 53-57); parse returns or throws; on success the result is stored
\* and sent; in every case the finally block calls fs.unlink
OcrSettled(r) ==
  /\ requests[r].pc = "ocr"
  /\ \E outcome \in {"threw", "MOCK TEXT: TOTAL $88.00", "Total $88.00"},
        parsed \in BOOLEAN :
        IF outcome = "threw"
        THEN /\ requests' = [requests EXCEPT ![r] =
                   [@ EXCEPT !.pc = "unlink", !.ocr = "threw", !.error = TRUE,
                             !.unlinks = @ + 1]]
             /\ UNCHANGED receipts
        ELSE IF ~parsed
        THEN /\ requests' = [requests EXCEPT ![r] =
                   [@ EXCEPT !.pc = "unlink", !.ocr = "ok", !.parse = "threw",
                             !.error = TRUE, !.unlinks = @ + 1]]
             /\ UNCHANGED receipts
        ELSE /\ requests' = [requests EXCEPT ![r] =
                   [@ EXCEPT !.pc = "unlink", !.ocr = "ok", !.parse = "ok",
                             !.status = 200, !.body = outcome, !.unlinks = @ + 1]]
             /\ receipts' = {x \in receipts : x.id # r}
                              \cup {[id |-> r, data |-> outcome]}
  /\ UNCHANGED <<fetched, rawText, pc, text, lastIndex, moneyMatches,
                 extractionText, data, initial, returned, tokenVars>>

\* a handler whose unlink has no .catch: a failed deletion reaches line 90
AfterUnlinkUncaught(req, removed) ==
  [req EXCEPT !.pc = "done", !.deleted = removed,
              !.status = IF req.error \/ ~removed THEN 500 ELSE @,
              !.body = IF req.error \/ ~removed THEN "Failed to process receipt" ELSE @]

\* lines 86-93: the deletion settles, its failure is logged only; an error
\* thrown in the try block is then answered (it is no AppError: 500)
AfterUnlink(req, removed) ==
  [req EXCEPT !.pc = "done", !.deleted = removed,
              !.status = IF req.error THEN 500 ELSE @,
              !.body = IF req.error THEN "Failed to process receipt" ELSE @]

UnlinkSettled(r) ==
  /\ requests[r].pc = "unlink"
  /\ \E removed \in BOOLEAN :
        requests' = [requests EXCEPT ![r] = AfterUnlink(@, removed)]
  /\ UNCHANGED <<receipts, fetched, rawText, pc, text, lastIndex, moneyMatches,
                 extractionText, data, initial, returned, tokenVars>>

\* lines 101-116
Get(id) ==
  /\ fetched' = IF \E x \in receipts : x.id = id
                THEN [status |-> 200, body |-> (CHOOSE x \in receipts : x.id = id).data]
                ELSE [status |-> 404, body |-> "Receipt not found"]
  /\ UNCHANGED <<requests, receipts, rawText, pc, text, lastIndex, moneyMatches,
                 extractionText, data, initial, returned, tokenVars>>

NextUpload ==
  \/ \E r \in 1..MaxRequests : Upload(r)
  \/ \E r \in 1..MaxRequests : Post(r)
  \/ \E r \in 1..MaxRequests : OcrSettled(r)
  \/ \E r \in 1..MaxRequests : UnlinkSettled(r)
  \/ \E id \in 1..MaxRequests : Get(id)

SpecUpload == InitUpload /\ [][NextUpload]_vars

(***************************************************************************)
(* Properties.                                                             *)
(***************************************************************************)

\* C1 (reconciliation closure): in the returned record, whenever subtotal,
\* tax and total are all present, |subtotal + tax - total| <= 0.10.
C1_ReconciliationClosure ==
  pc = "done" /\ Defined(data.subtotalAmount) /\ Defined(data.taxAmount)
              /\ Defined(data.amount)
    => Le(Abs(Minus(Add(data.subtotalAmount, data.taxAmount), data.amount)), P10)

\* C2 (percentage bound): in the returned record the tax percentage, when
\* present, lies in [0, 100].
C2_PercentageBound ==
  pc = "done" /\ Defined(data.taxPercentage)
    => Ge(data.taxPercentage, Zero) /\ Le(data.taxPercentage, Hundred)

\* C3 (idempotence): any two calls that parsed the same text returned the
\* same record, whatever was parsed in between, and a call starts with the
\* scan position at 0 and an empty candidate list.
C3_Idempotence ==
  /\ \A i, j \in 1..Len(returned) :
       returned[i].rawText = returned[j].rawText
         => returned[i].data = returned[j].data
  /\ pc = "normalize" => lastIndex = 0 /\ moneyMatches = <<>>

\* the third call parsed the first call's text again, another text came in
\* between, and the text has several money candidates
C3_Witness ==
  /\ Len(returned) = 3
  /\ returned[3].rawText = returned[1].rawText
  /\ returned[2].rawText # returned[1].rawText
  /\ Len(moneyMatches) > 1
  /\ Defined(returned[3].data.subtotalAmount)

C5_ComputedTaxInRecord ==
  pc = "done" /\ Defined(data.subtotalAmount) /\ Defined(data.taxPercentage)
    => LET computed == ToFixed2Quot(Times(data.subtotalAmount, data.taxPercentage),
                                    Hundred)
       IN  /\ Defined(data.taxAmount)
           /\ \/ data.taxAmount = computed
              \/ /\ data.taxAmount = initial.taxAmount
                 /\ Le(Abs(Minus(computed, data.taxAmount)), P05)

\* C5 as amended: the step Paso 3 itself, taken with a non-zero subtotal and
\* a percentage present, leaves a tax equal to round(subtotal x percentage /
\* 100, 2), unless the tax it found agrees with that value within 0.05 and
\* is kept.
C5_ComputedTaxAtPaso3 ==
  [][pc = "paso3" /\ Truthy(data.subtotalAmount) /\ Defined(data.taxPercentage)
       => LET computed == ToFixed2Quot(Times(data.subtotalAmount,
                                             data.taxPercentage), Hundred)
          IN  /\ Defined(data'.taxAmount)
              /\ data'.subtotalAmount = data.subtotalAmount
              /\ data'.taxPercentage = data.taxPercentage
              /\ \/ data'.taxAmount = computed
                 \/ /\ data'.taxAmount = data.taxAmount
                    /\ Le(Abs(Minus(computed, data.taxAmount)), P05)]_vars

\* Paso 3 has replaced an extracted tax by the computed one
C5_Witness ==
  /\ pc = "paso4"
  /\ Truthy(data.subtotalAmount) /\ Defined(data.taxPercentage)
  /\ Defined(initial.taxAmount)
  /\ data.taxAmount # initial.taxAmount
  /\ data.taxAmount = ToFixed2Quot(Times(data.subtotalAmount, data.taxPercentage),
                                   Hundred)

\* C6 (scenario A): the record returned for scenario A has vendor "Acme
\* Corp", subtotal 100.00, percentage 7, tax 7.00 and total 107.00.
C6_ScenarioA ==
  pc = "done" /\ rawText = ScenarioA
    => /\ data.vendorName = <<"Acme Corp">>
       /\ data.subtotalAmount = Dec(100, 0)
       /\ data.taxPercentage = Dec(7, 0)
       /\ data.taxAmount = Dec(7, 0)
       /\ data.amount = Dec(107, 0)

\* C7 (zero-tax detection): when extraction found a total, no tax amount and
\* no percentage, and the raw text has a tax label followed by a 0.00 amount,
\* the returned record has tax 0, percentage 0 and subtotal = total; scenario
\* B gives 0, 0, 50.00, 50.00.
C7_ZeroTax ==
  /\ pc = "done" /\ Defined(initial.amount) /\ ~Defined(initial.taxAmount)
                 /\ ~Defined(initial.taxPercentage)
                 /\ Test(zeroTaxPattern, Chars(rawText), TRUE)
       => /\ data.taxAmount = Zero
          /\ data.taxPercentage = Zero
          /\ data.subtotalAmount = data.amount
  /\ pc = "done" /\ rawText = ScenarioB
       => /\ data.taxAmount = Zero /\ data.taxPercentage = Zero
          /\ data.subtotalAmount = Dec(50, 0) /\ data.amount = Dec(50, 0)

\* C8 (discrepancy correction): at the global consistency check with
\* subtotal, tax and total all known, if subtotal + tax differs from total by
\* more than 0.10 the tax becomes round(total - subtotal, 2) and the
\* percentage round(tax / subtotal x 100, 2), total and subtotal unchanged;
\* otherwise nothing changes.
C8_DiscrepancyCorrection ==
  [][pc = "paso7" /\ Defined(data.subtotalAmount) /\ Defined(data.taxAmount)
                  /\ Defined(data.amount)
       => IF Gt(Abs(Minus(Add(data.subtotalAmount, data.taxAmount), data.amount)),
                P10)
          THEN /\ data'.taxAmount = ToFixed2(Minus(data.amount, data.subtotalAmount))
               /\ data'.taxPercentage =
                    ToFixed2Quot(Times(data'.taxAmount, Hundred), data.subtotalAmount)
               /\ data'.amount = data.amount
               /\ data'.subtotalAmount = data.subtotalAmount
          ELSE data' = data]_vars

\* C9 (last-resort subtotal fallback): a returned record with a total has a
\* subtotal; the fallback step, reached without a subtotal, takes the
\* second-largest candidate when it is positive and below the total (and
\* sets a missing tax to total - subtotal, rounded to two decimals as every
\* derived amount is), otherwise the total; scenario D gives
\* subtotal = total = 88.00 and no tax fields.
C9_SubtotalFallback ==
  /\ [](pc \in {"return", "done"} /\ Defined(data.amount)
          => Defined(data.subtotalAmount))
  /\ [](pc = "done" /\ rawText = ScenarioD
          => /\ data.subtotalAmount = Dec(88, 0) /\ data.amount = Dec(88, 0)
             /\ ~Defined(data.taxAmount) /\ ~Defined(data.taxPercentage))
  /\ [][pc = "paso8" /\ ~Defined(data.subtotalAmount) /\ Defined(data.amount)
          => IF /\ Len(moneyMatches) >= 2
                /\ Gt(moneyMatches[2], Zero) /\ Lt(moneyMatches[2], data.amount)
             THEN /\ data'.subtotalAmount = moneyMatches[2]
                  /\ data'.taxAmount =
                       IF Defined(data.taxAmount) THEN data.taxAmount
                       ELSE ToFixed2(Minus(data.amount, moneyMatches[2]))
                  /\ data'.amount = data.amount
             ELSE /\ data'.subtotalAmount = data.amount
                  /\ data'.taxAmount = data.taxAmount
                  /\ data'.amount = data.amount]_vars

\* the fallback has taken the second-largest candidate and derived the tax
C9_Witness ==
  /\ pc = "return"
  /\ ~Defined(initial.subtotalAmount) /\ ~Defined(initial.taxAmount)
  /\ ~Defined(initial.taxPercentage)
  /\ Len(moneyMatches) >= 2
  /\ data.subtotalAmount = moneyMatches[2]
  /\ Lt(data.subtotalAmount, data.amount)
  /\ data.taxAmount = ToFixed2(Minus(data.amount, data.subtotalAmount))

\* C10 (currency token, mixed separators): a token of digits, '.' and ','
\* holding both separators is read with the dots dropped and the comma as
\* the decimal point when it has exactly one comma, 1 or 2 digits after it
\* and dot-separated groups of three digits before it; otherwise with its
\* commas dropped.  '1.234,56' and '1,234.56' give 1234.56, '' gives NaN.
C10_MixedSeparators ==
  pc = "parsed" =>
    LET s == Chars(token)
        dots == {i \in 1..Len(s) : s[i] = "."}
        commas == {i \in 1..Len(s) : s[i] = ","}
        seps == dots \cup commas
        shape == /\ Cardinality(commas) = 1
                 /\ \A c \in commas :
                      /\ Len(s) - c \in {1, 2}
                      /\ \A d \in dots : d < c
                 /\ \A d \in dots :
                      /\ d > 1
                      /\ d + 4 \in seps
                      /\ \A i \in (d + 1)..(d + 3) : i \notin seps
    IN  /\ (\A i \in 1..Len(s) : s[i] \in Digit \cup {".", ","})
           /\ dots # {} /\ commas # {}
             => value = IF shape
                        THEN parseFloat(Subst(Without(s, {"."}), ",", "."))
                        ELSE parseFloat(NoCommas(s))
        /\ token \in {"1.234,56", "1,234.56"} => value = Dec(123456, 2)
        /\ token = "" => value = NaN

\* C11 (total fallback): whenever some total pattern matches and its capture
\* parses to a number, the returned amount is that number rounded to two
\* decimals; the largest money candidate never replaces it.
C11_TotalFallback ==
  pc \in {"return", "done"} /\ Defined(TotalFrom(Chars(rawText), 1))
    => data.amount = ToFixed2(TotalFrom(Chars(rawText), 1))

\* C12 (tax amount validated against total and subtotal): once the ladders
\* have run, an extracted tax amount is non-negative and strictly below the
\* extracted total and the extracted subtotal, when those were found.
C12_TaxBelowTotalAndSubtotal ==
  pc = "totalFallback" /\ Defined(data.taxAmount)
    => /\ Ge(data.taxAmount, Zero)
       /\ Defined(data.amount) => Lt(data.taxAmount, data.amount)
       /\ Defined(data.subtotalAmount) => Lt(data.taxAmount, data.subtotalAmount)

\* C13 (section segmentation): the text the subtotal and tax ladders read is
\* the normalized text when it holds no anchor phrase; otherwise it starts
\* right after an anchor phrase at the first anchor position, holds no
\* terminator keyword, and ends right before a terminator or at the end of
\* the text.
C13_Segmentation ==
  pc \notin {"normalize", "scan", "sort", "segment"}
    => LET t == Chars(text)
           e == Chars(extractionText)
           anchors == <<Cat(<<Lit("desglose"), Sp, Lit("itbms")>>), Lit("desglose"),
                        Cat(<<Lit("valor"), Sp, Lit("total")>>),
                        Cat(<<Lit("total"), Sp, Lit("pagado")>>),
                        Lit("totals"), Lit("total"),
                        Cat(<<Lit("amounts"), Sp, Lit("breakdown")>>),
                        Cat(<<Lit("amount"), Sp, Lit("breakdown")>>),
                        Cat(<<Lit("amount"), Sp, Lit("paid")>>)>>
           terminators == Alt(<<Cat(<<Lit("forma"), Sp, Lit("de"), Sp, Lit("pago")>>),
                                Cat(<<Lit("payment"), Sp, Lit("method")>>),
                                Lit("pagina"), Lit("page")>>)
           first == Match(Alt(anchors), t, TRUE)
       IN  IF ~first.ok THEN e = t
           ELSE \E k \in 1..Len(anchors) :
                  LET m == SearchFrom(anchors[k], t, TRUE, first.start)
                      stop == m.end + Len(e)
                      after == SearchFrom(terminators, t, TRUE, stop)
                  IN  /\ m.ok /\ m.start = first.start
                      /\ e = SubSeq(t, m.end, stop - 1)
                      /\ ~Test(terminators, e, TRUE)
                      /\ stop = Len(t) + 1 \/ (after.ok /\ after.start = stop)

\* C14 (upload handler lifecycle): for a request with an accepted file the
\* deletion of the temporary file is attempted exactly once, when extraction
\* and parsing have finished, whether they succeeded or threw; its result is
\* in the store exactly when both succeeded, a finished request is answered
\* 200 in that case and with an error status otherwise; and the settling of
\* the deletion, failed or not, leaves the store and an answer already sent
\* as they are, the answer to a failed request being the same either way.
C14_UploadLifecycle ==
  /\ [](\A r \in DOMAIN requests :
          requests[r].file = "accepted" =>
            /\ requests[r].unlinks
                 = IF requests[r].pc \in {"unlink", "done"} THEN 1 ELSE 0
            /\ (\E x \in receipts : x.id = r)
                 <=> (requests[r].ocr = "ok" /\ requests[r].parse = "ok")
            /\ requests[r].pc = "done" =>
                 IF requests[r].ocr = "ok" /\ requests[r].parse = "ok"
                 THEN requests[r].status = 200
                 ELSE requests[r].status >= 400)
  /\ [][\A r \in DOMAIN requests :
          requests[r].pc = "unlink" /\ requests'[r].pc = "done" =>
            /\ receipts' = receipts
            /\ requests'[r].status = IF requests[r].error THEN 500
                                     ELSE requests[r].status
            /\ ~requests[r].error => requests'[r].body = requests[r].body]_vars

\* one request failed in parse and one succeeded, and neither temporary
\* file could be deleted
C14_Witness ==
  \E r, q \in DOMAIN requests :
    /\ requests[r].pc = "done" /\ requests[r].file = "accepted"
    /\ requests[r].parse = "threw" /\ ~requests[r].deleted
    /\ requests[r].unlinks = 1 /\ requests[r].status = 500
    /\ ~\E x \in receipts : x.id = r
    /\ requests[q].pc = "done" /\ requests[q].parse = "ok" /\ ~requests[q].deleted
    /\ requests[q].unlinks = 1 /\ requests[q].status = 200
    /\ \E x \in receipts : x.id = q

====
